---- MODULE Spec2Model ----
(***************************************************************************)
(* pypoint: the Minut Point session (src/pypoint/__init__.py).             *)
(*                                                                         *)
(* The state is the PointSession object (its device cache, home cache and  *)
(* webhook record), the hooks held by the remote server, and a record of   *)
(* the last completed call (operation, arguments, the HTTP requests it     *)
(* issued with the way each one ended, the value returned, the exception   *)
(* raised).  One action is one complete call of a public operation; where  *)
(* calls interleave, update() is split at its two network calls and one    *)
(* action is the part of it between two suspensions.                       *)
(*                                                                         *)
(* Python values: None is the record None, a dict is a record over its     *)
(* keys (the empty dict is <<>>), a list is List(s) for a sequence s.      *)
(***************************************************************************)
EXTENDS Integers, Sequences, FiniteSets, TLC

VARIABLES
    _device_state,  \* PointSession._device_state : device_id -> device record
    _homes,         \* PointSession._homes : {} at first, then the homes list
    _webhook,       \* PointSession._webhook : {} at first, then a hook record or None
    srv_hooks,      \* the hooks the server lists, in order
    srv_created,    \* every hook the server ever created for a POST, in order
    op,             \* the last completed call: its operation
    args,           \*   its arguments
    requests,       \*   the HTTP requests it issued, in order, each with its outcome
    raised,         \*   the exception that left it ("" when it returned)
    result,         \*   the value it returned (None when it raised)
    section,        \*   how it reached the caches: "locked", "unlocked", "none"
    _lock,          \* PointSession._lock : the level the event-loop thread holds it at
    tasks           \* the update() calls in flight: where each is suspended, its `devices`

vars == <<_device_state, _homes, _webhook, srv_hooks, srv_created,
          op, args, requests, raised, result, section, _lock, tasks>>

session == <<_device_state, _homes, _webhook>>
server == <<srv_hooks, srv_created>>
loop == <<_lock, tasks>>

----------------------------------------------------------------------------
(* Bounds *)

MaxDevices == 2
MaxHooks == 2

----------------------------------------------------------------------------
(* Python values *)

None == [None |-> TRUE]
EmptyDict == <<>>
List(s) == [list |-> s]
Bool(b) == [bool |-> b]
Num(n) == [num |-> n]
Text(s) == [text |-> s]
Keys(S) == [keys |-> S]

IsList(v) == "list" \in DOMAIN v

\* bool(v) for None, dicts and lists
Truthy(v) ==
    IF v = None THEN FALSE
    ELSE IF IsList(v) THEN Len(v.list) > 0
    ELSE DOMAIN v # {}

\* d.get(k) for a dict d
Get(d, k) == IF k \in DOMAIN d THEN d[k] ELSE None

Return(v) == [exc |-> "", val |-> v]
Raise(e) == [exc |-> e, val |-> None]

Max(S) == CHOOSE x \in S : \A y \in S : y <= x
Min(S) == CHOOSE x \in S : \A y \in S : x <= y

SeqsUpTo(S, n) == UNION {[1..k -> S] : k \in 0..n}

----------------------------------------------------------------------------
(* Constants of the package *)

MINUT_API_URL == "https://api.minut.com/v8/"
MINUT_DEVICES_URL == MINUT_API_URL \o "devices"
MINUT_WEBHOOKS_URL == MINUT_API_URL \o "webhooks"
MINUT_HOMES_URL == MINUT_API_URL \o "homes"

MAP_SENSORS == [sound_pressure |-> "sound"]

EVENTS ==
    << <<"alarm_heard", "alarm_silenced">>,
       <<"battery_low", "">>,
       <<"short_button_press", "">>,
       <<"temperature_low", "temperature_risen_normal">>,
       <<"device_online", "device_offline">>,
       <<"humidity_low", "humidity_risen_normal">>,
       <<"glassbreak", "">>,
       <<"temperature_high", "temperature_dropped_normal">>,
       <<"humidity_high", "humidity_dropped_normal">>,
       <<"pir_motion", "">>,
       <<"disturbance_first_notice", "disturbance_ended">>,
       <<"avg_sound_high", "sound_level_dropped_normal">>,
       <<"tamper", "">>,
       <<"tamper_removed", "tamper_mounted">> >>

----------------------------------------------------------------------------
(* The transport.  An outcome is the way the HTTP exchange of one request  *)
(* ends: "ok" with the decoded JSON body, or the exception the web session *)
(* (or raise_for_status) raises.                                           *)

Ok(body) == [kind |-> "ok", body |-> body]
Fail(kind) == [kind |-> kind]

\* ClientConnectionError: the connection failed (its subclasses included);
\* TimeoutError: the total timeout of TIMEOUT seconds expired (asyncio.TimeoutError);
\* ClientResponseError: raise_for_status() on a non-2xx status.
Failures ==
    {Fail("ClientConnectionError"), Fail("TimeoutError"), Fail("ClientResponseError")}

ErrorBody == [error |-> "invalid_token"]

\* no outcome: the request is not sent
Unsent == [kind |-> "unsent"]

Req(method, url, kwargs, outcome) ==
    [method |-> method, url |-> url, kwargs |-> kwargs, outcome |-> outcome]

\* AbstractAuth.request: the value returned or the exception raised
request(outcome) ==
    IF outcome.kind = "ok"
    THEN IF "error" \in DOMAIN outcome.body
         THEN Raise("NameError")  \* raise RequestError(...): the name is not defined
         ELSE Return(outcome.body)
    ELSE IF outcome.kind = "ClientConnectionError"
         THEN Return(None)        \* logged; the function ends without a return
         ELSE Raise(outcome.kind)

----------------------------------------------------------------------------
(* Records the server answers with *)

A1 == [device_id |-> "a", description |-> "Hall", battery |-> [percent |-> 55],
       latest_sensor_values |-> [sound |-> [value |-> 42]],
       last_heard_from_at |-> "2024-01-01T10:00:00Z",
       ongoing_events |-> <<"alarm_heard">>, active |-> TRUE, offline |-> FALSE,
       device_mac |-> "aa:bb", hardware_version |-> 2,
       firmware |-> [installed |-> "1.4"]]
A2 == [device_id |-> "a", description |-> "Porch", battery |-> [percent |-> 60],
       last_heard_from_at |-> "2024-02-02T20:00:00Z",
       ongoing_events |-> <<>>, active |-> FALSE, offline |-> TRUE]
D1 == [device_id |-> "d1", description |-> "Attic", battery |-> [percent |-> 70],
       latest_sensor_values |->
           [sound_pressure |-> [value |-> 7], temperature |-> [value |-> 21]],
       last_heard_from_at |-> "2024-01-01T11:00:00Z"]
D2 == [device_id |-> "d2", battery |-> [percent |-> 80]]

DeviceRecords == {A1, A2, D1, D2}

\* device_id identifies a device: a list holds no two records of one id
DeviceLists ==
    {s \in SeqsUpTo(DeviceRecords, MaxDevices) :
        \A i, j \in 1..Len(s) : s[i].device_id = s[j].device_id => i = j}

H1on == [home_id |-> "h1", name |-> "Home", alarm_status |-> "on"]
H1off == [home_id |-> "h1", name |-> "Home", alarm_status |-> "off"]
H2 == [home_id |-> "h2", name |-> "Cabin"]
H3 == [home_id |-> "h3", alarm_status |-> "off"]

\* home_id identifies a home
HomeLists ==
    {<<>>, <<H2>>, <<H1on, H2>>, <<H2, H1off>>, <<H3, H1on>>}

\* the arguments of update_webhook: url, id hint, events (None: the default list)
WebhookArgs ==
    {[webhook_url |-> "https://x", webhook_id |-> "ignored", events |-> None],
     [webhook_url |-> "https://x", webhook_id |-> "w1",
      events |-> List(<<"alarm_heard">>)],
     [webhook_url |-> "https://y", webhook_id |-> "ignored",
      events |-> List(<<"alarm_heard">>)],
     [webhook_url |-> "https://y", webhook_id |-> "w1", events |-> None]}

\* how the exchange of a request to the webhooks endpoint ends: served by the
\* server, answered with an error body, or failed
ExchangeKinds ==
    {"ok", "error", "ClientConnectionError", "TimeoutError", "ClientResponseError"}

\* a hook registered by an earlier process
H1 == [url |-> "https://x", hook_id |-> "h1"]
InitialHooks == {<<>>, <<H1>>}

SensorSeries ==
    {<<>>, <<[value |-> 30], [value |-> 31]>>,
     <<[value |-> 30], [datetime |-> "2024-01-01T00:00:00Z"]>>}

DeviceOutcomes ==
    {Ok([devices |-> List(s)]) : s \in DeviceLists}
        \cup {Ok([message |-> "none"]), Ok(EmptyDict), Ok(ErrorBody)} \cup Failures

HomeOutcomes ==
    {Ok([homes |-> List(s)]) : s \in HomeLists}
        \cup {Ok([message |-> "none"]), Ok(ErrorBody)} \cup Failures

SensorOutcomes ==
    {Ok([values |-> List(s)]) : s \in SensorSeries}
        \cup {Ok([message |-> "none"]), Ok(ErrorBody)} \cup Failures

AlarmOutcomes ==
    {Ok([alarm_status |-> "on"]), Ok([alarm_status |-> "off"]),
     Ok([home_id |-> "h1"]), Ok(ErrorBody)} \cup Failures

SensorDeviceIds == {"a", "d1"}
SensorUris == {"sound", "sound_pressure", "temperature"}
ViewDeviceIds == {"", "a", "b", "d1", "zz"}
HomeIds == {"h1", "h2"}

\* the Device views read: of a device fetched with every field, of one fetched
\* with some, of one never fetched
ViewIds == {"a", "d1", "zz"}

\* the two update() calls that interleave on the event loop
Tasks == {"u1", "u2"}

\* an update() call that is not running
Idle == [pc |-> "idle", devices |-> None]

\* what the interleaved calls are answered with
TaskDeviceOutcomes ==
    {Ok([devices |-> List(<<A1>>)]), Ok([devices |-> List(<<A2, D1>>)]),
     Ok([devices |-> List(<<D2>>)]), Ok([devices |-> List(<<>>)]),
     Fail("ClientConnectionError"), Fail("TimeoutError")}

TaskHomeOutcomes ==
    {Ok([homes |-> List(<<H1on, H2>>)]), Ok([homes |-> List(<<H2, H1off>>)]),
     Fail("ClientConnectionError"), Fail("ClientResponseError")}

----------------------------------------------------------------------------
(* PointSession: the device and home caches *)

\* PointSession._request_devices
_request_devices(outcome, _type) ==
    LET res == request(outcome)
    IN  IF res.exc # "" THEN res
        ELSE Return(IF Truthy(res.val) THEN Get(res.val, _type) ELSE EmptyDict)

\* mutant: the fetched devices are merged into the cache (dict.update)
DeviceDict_merge(devices) ==
    LET ids == {devices[i].device_id : i \in 1..Len(devices)}
    IN  [id \in ids \cup DOMAIN _device_state |->
            IF id \in ids
            THEN devices[Max({i \in 1..Len(devices) : devices[i].device_id = id})]
            ELSE _device_state[id]]

\* {device["device_id"]: device for device in devices}
DeviceDict(devices) ==
    LET ids == {devices[i].device_id : i \in 1..Len(devices)}
    IN  [id \in ids |->
            devices[Max({i \in 1..Len(devices) : devices[i].device_id = id})]]

\* the "Found devices" log line reads device["description"] of every cached device
DevicesLogged(state) == \A k \in DOMAIN state : "description" \in DOMAIN state[k]

\* the "Found homes" log line reads home["home_id"] and home["name"] of every home
HomesLogged(hs) ==
    \A i \in 1..Len(hs) : {"home_id", "name"} \subseteq DOMAIN hs[i]

\* PointSession.update, from the homes request on (the device cache is replaced)
UpdateHomes(state, hm, oh, devices, reqs) ==
    LET reqH == Req("GET", MINUT_HOMES_URL, <<>>, oh)
        hs == _request_devices(oh, "homes")
    IN  IF hs.exc # ""
        THEN [ds |-> state, hm |-> hm, exc |-> hs.exc, ret |-> None,
              reqs |-> Append(reqs, reqH)]
        ELSE IF ~Truthy(hs.val)
        THEN [ds |-> state, hm |-> hm, exc |-> "", ret |-> devices,
              reqs |-> Append(reqs, reqH)]
        ELSE IF ~HomesLogged(hs.val.list)
        THEN [ds |-> state, hm |-> hs.val, exc |-> "KeyError", ret |-> None,
              reqs |-> Append(reqs, reqH)]
        ELSE [ds |-> state, hm |-> hs.val, exc |-> "", ret |-> devices,
              reqs |-> Append(reqs, reqH)]

\* mutant: the homes are fetched whether or not devices were found
NoDevices_homes(ds, hm, oh, devices, reqs) == UpdateHomes(ds, hm, oh, devices, reqs)

\* PointSession.update when `devices` is falsy: nothing is replaced, no homes request
NoDevices(ds, hm, oh, devices, reqs) ==
    [ds |-> ds, hm |-> hm, exc |-> "", ret |-> devices, reqs |-> reqs]

\* PointSession.update: the session after the call, and how the call ended
update(ds, hm, od, oh) ==
    LET reqD == Req("GET", MINUT_DEVICES_URL, <<>>, od)
        devices == _request_devices(od, "devices")
    IN  IF devices.exc # ""
        THEN [ds |-> ds, hm |-> hm, exc |-> devices.exc, ret |-> None,
              reqs |-> <<reqD>>]
        ELSE IF ~Truthy(devices.val)
        THEN NoDevices(ds, hm, oh, devices.val, <<reqD>>)
        ELSE LET state == DeviceDict(devices.val.list)
             IN  IF ~DevicesLogged(state)
                 THEN [ds |-> state, hm |-> hm, exc |-> "KeyError", ret |-> None,
                       reqs |-> <<reqD>>]
                 ELSE UpdateHomes(state, hm, oh, devices.val, <<reqD>>)

\* mutant: the sensor name is looked up as given
MapSensor_asgiven(sensor_uri) == sensor_uri

\* MAP_SENSORS.get(sensor_uri, sensor_uri)
MapSensor(sensor_uri) ==
    IF sensor_uri \in DOMAIN MAP_SENSORS THEN MAP_SENSORS[sensor_uri] ELSE sensor_uri

\* device_id in state and sensor_uri in state[device_id].get("latest_sensor_values", {})
SensorCached(state, device_id, sensor_uri) ==
    /\ device_id \in DOMAIN state
    /\ "latest_sensor_values" \in DOMAIN state[device_id]
    /\ sensor_uri \in DOMAIN state[device_id].latest_sensor_values

\* v.get("value") of one sensor sample
SampleValue(v) == IF "value" \in DOMAIN v THEN Num(v.value) ELSE None

\* PointSession.read_sensor
read_sensor(state, device_id, sensor_uri, outcome) ==
    LET uri == MapSensor(sensor_uri)
        url == MINUT_DEVICES_URL \o "/" \o device_id \o "/" \o uri
        req == Req("GET", url, [data |-> [limit |-> 1]], outcome)
        res == request(outcome)
    IN  IF SensorCached(state, device_id, uri)
        THEN IF "value" \in DOMAIN state[device_id].latest_sensor_values[uri]
             THEN [exc |-> "", reqs |-> <<>>,
                   ret |-> Num(state[device_id].latest_sensor_values[uri].value)]
             ELSE [exc |-> "KeyError", reqs |-> <<>>, ret |-> None]
        ELSE IF res.exc # ""
        THEN [exc |-> res.exc, reqs |-> <<req>>, ret |-> None]
        ELSE IF ~Truthy(res.val) \/ ~Truthy(Get(res.val, "values"))
        THEN [exc |-> "", reqs |-> <<req>>, ret |-> None]
        ELSE [exc |-> "", reqs |-> <<req>>,
              ret |-> SampleValue(res.val.values.list[Len(res.val.values.list)])]

\* iterating a dict yields its keys, iterating a list its elements
HomeEntries(hm) == IF IsList(hm) THEN hm.list ELSE <<>>

\* mutant: every home is kept
HomeFilter_all(home) == "home_id" \in DOMAIN home

\* the condition of the comprehension in PointSession.homes
HomeFilter(home) == "alarm_status" \in DOMAIN home

\* PointSession.homes
homes(hm) ==
    LET hs == HomeEntries(hm)
        kept == {i \in 1..Len(hs) : HomeFilter(hs[i])}
    IN  [id \in {hs[i].home_id : i \in kept} |->
            hs[Max({i \in kept : hs[i].home_id = id})]]

\* PointSession._set_alarm
_set_alarm(status, home_id, outcome) ==
    LET url == MINUT_HOMES_URL \o "/" \o home_id
        req == Req("PUT", url, [json |-> [alarm_status |-> status]], outcome)
        response == request(outcome)
    IN  IF response.exc # ""
        THEN [exc |-> response.exc, reqs |-> <<req>>, ret |-> None]
        ELSE IF response.val = None
        THEN [exc |-> "AttributeError", reqs |-> <<req>>, ret |-> None]
        ELSE [exc |-> "", reqs |-> <<req>>,
              ret |-> Bool((IF "alarm_status" \in DOMAIN response.val
                            THEN response.val.alarm_status ELSE "") = status)]

\* PointSession.alarm_arm
alarm_arm(home_id, outcome) == _set_alarm("on", home_id, outcome)

\* PointSession.alarm_disarm
alarm_disarm(home_id, outcome) == _set_alarm("off", home_id, outcome)

\* Device.__init__: the view holds its id (and a reference to the session)
Device(device_id) == [_device_id |-> device_id]

\* mutant: the empty identifier is rejected too
BadDeviceId_le(device_id) == Len(device_id) <= 1

\* the guard of PointSession.device
BadDeviceId(device_id) == Len(device_id) = 1

\* PointSession.device
device(device_id) ==
    IF BadDeviceId(device_id) THEN Raise("Exception") ELSE Return(Device(device_id))

\* PointSession.device_ids: the keys of the cache
device_ids(state) == Keys(DOMAIN state)

\* PointSession.devices, traversed to its end: device(id) for every id of
\* device_ids; the first id that device() rejects ends the traversal with its
\* exception (the order in which the ids are visited is not modelled)
devices(state) ==
    LET ids == device_ids(state).keys
    IN  IF \E id \in ids : device(id).exc # ""
        THEN Raise((CHOOSE r \in {device(id) : id \in ids} : r.exc # "").exc)
        ELSE Return([views |-> {device(id).val : id \in ids}])

\* mutant: a device that is not cached reads as an empty record
device_raw_default(state, device_id) ==
    IF device_id \in DOMAIN state THEN state[device_id] ELSE EmptyDict

\* mutant: the record of some cached device
device_raw_any(state, device_id) ==
    IF DOMAIN state = {} THEN None ELSE state[CHOOSE k \in DOMAIN state : TRUE]

\* PointSession.device_raw: self._device_state.get(device_id)
device_raw(state, device_id) == Get(state, device_id)

\* PointSession.update up to its second network call: the device cache after
\* it, and whether the call goes on to request the homes
UpdateDevices(ds, od) ==
    LET reqD == Req("GET", MINUT_DEVICES_URL, <<>>, od)
        fetched == _request_devices(od, "devices")
    IN  IF fetched.exc # ""
        THEN [ds |-> ds, exc |-> fetched.exc, ret |-> None, reqs |-> <<reqD>>,
              goes_on |-> FALSE]
        ELSE IF ~Truthy(fetched.val)
        THEN [ds |-> ds, exc |-> "", ret |-> fetched.val, reqs |-> <<reqD>>,
              goes_on |-> FALSE]
        ELSE LET state == DeviceDict(fetched.val.list)
             IN  IF ~DevicesLogged(state)
                 THEN [ds |-> state, exc |-> "KeyError", ret |-> None,
                       reqs |-> <<reqD>>, goes_on |-> FALSE]
                 ELSE [ds |-> state, exc |-> "", ret |-> fetched.val,
                       reqs |-> <<reqD>>, goes_on |-> TRUE]

----------------------------------------------------------------------------
(* Device: the view of one device.  Every property but device_id and       *)
(* webhook reads the record through PointSession.device_raw.               *)

\* Device.device
Device_device(state, view) == device_raw(state, view._device_id)

\* d[k] for the value d that device_raw returned: the exception it raises, "" for none
Subscript(d, k) ==
    IF d = None THEN "TypeError" ELSE IF k \notin DOMAIN d THEN "KeyError" ELSE ""

\* Device.device_id
Device_device_id(state, view) == Return(Text(view._device_id))

\* Device.ongoing_events
Device_ongoing_events(state, view) ==
    LET d == Device_device(state, view)
    IN  IF Subscript(d, "ongoing_events") # ""
        THEN Raise(Subscript(d, "ongoing_events"))
        ELSE Return(List(d.ongoing_events))

\* Device.last_update
Device_last_update(state, view) ==
    LET d == Device_device(state, view)
    IN  IF Subscript(d, "last_heard_from_at") # ""
        THEN Raise(Subscript(d, "last_heard_from_at"))
        ELSE Return(Text(d.last_heard_from_at))

\* Device.name: self.device.get("description")
Device_name(state, view) ==
    LET d == Device_device(state, view)
    IN  IF d = None THEN Raise("AttributeError")
        ELSE IF "description" \in DOMAIN d THEN Return(Text(d.description))
        ELSE Return(None)

\* Device.battery_level
Device_battery_level(state, view) ==
    LET d == Device_device(state, view)
    IN  IF Subscript(d, "battery") # "" THEN Raise(Subscript(d, "battery"))
        ELSE IF Subscript(d.battery, "percent") # ""
        THEN Raise(Subscript(d.battery, "percent"))
        ELSE Return(Num(d.battery.percent))

\* the first of the keys that d[k] fails for, in the order they are read
FirstMissing(d, keys) ==
    LET bad == {i \in 1..Len(keys) : Subscript(d, keys[i]) # ""}
    IN  IF bad = {} THEN "" ELSE Subscript(d, keys[Min(bad)])

\* Device.device_info
Device_device_info(state, view) ==
    LET d == Device_device(state, view)
        exc == FirstMissing(d, <<"device_mac", "device_id", "hardware_version",
                                 "description", "firmware">>)
    IN  IF exc # "" THEN Raise(exc)
        ELSE IF Subscript(d.firmware, "installed") # ""
        THEN Raise(Subscript(d.firmware, "installed"))
        ELSE Return([connections |-> {<<"mac", d.device_mac>>},
                     identifieres |-> Text(d.device_id),
                     manufacturer |-> Text("Minut"),
                     model |-> Text("Point v" \o ToString(d.hardware_version)),
                     name |-> Text(d.description),
                     sw_version |-> Text(d.firmware.installed)])

\* Device.device_status
Device_device_status(state, view) ==
    LET d == Device_device(state, view)
        exc == FirstMissing(d, <<"active", "offline">>)
        last == Device_last_update(state, view)
        battery == Device_battery_level(state, view)
    IN  IF exc # "" THEN Raise(exc)
        ELSE IF last.exc # "" THEN last
        ELSE IF battery.exc # "" THEN battery
        ELSE Return([active |-> Bool(d.active), offline |-> Bool(d.offline),
                     last_update |-> last.val, battery_level |-> battery.val])


----------------------------------------------------------------------------
(* PointSession: the webhook *)

\* [e for v in EVENTS.values() for e in v if e]
RECURSIVE EventNames(_)
EventNames(table) ==
    IF table = <<>> THEN <<>>
    ELSE SelectSeq(Head(table), LAMBDA e : e # "") \o EventNames(Tail(table))

\* the outcome of an exchange of kind k that the server answers with `body`
Exchange(k, body) ==
    IF k = "ok" THEN Ok(body)
    ELSE IF k = "error" THEN Ok(ErrorBody)
    ELSE IF k = "unsent" THEN Unsent
    ELSE Fail(k)

\* the server: the hook it creates for a POST
NewHook(created, webhook_url, events) ==
    [hook_id |-> "w" \o ToString(Len(created) + 1), url |-> webhook_url,
     events |-> events]

\* the server: the hooks left after a DELETE of hook_id
WithoutHook(hooks, hook_id) == SelectSeq(hooks, LAMBDA h : h.hook_id # hook_id)

HasHook(hooks, hook_id) == \E i \in 1..Len(hooks) : hooks[i].hook_id = hook_id

\* PointSession._register_webhook
_register_webhook(webhook_url, events, outcome) == request(outcome)

\* mutant: the hooks are compared by their id
HookMatches_id(hook, webhook_url) == hook.hook_id = webhook_url

\* hook["url"] == webhook_url
HookMatches(hook, webhook_url) == hook.url = webhook_url

\* next(hook for hook in hooks if hook["url"] == webhook_url): the hook's place, 0 for StopIteration
NextHook(hooks, webhook_url) ==
    LET found == {i \in 1..Len(hooks) : HookMatches(hooks[i], webhook_url)}
    IN  IF found = {} THEN 0 ELSE Min(found)

\* mutant: the hook found is not stored
Adopt_keep(wh, hook) == wh

\* self._webhook = next(...)
Adopt(wh, hook) == hook

\* PointSession.update_webhook, the except StopIteration branch
RegisterNew(wh, webhook_url, events, opost, reqs) ==
    LET ev == IF events = None THEN List(EventNames(EVENTS)) ELSE events
        reqP == Req("POST", MINUT_WEBHOOKS_URL,
                    [json |-> [url |-> webhook_url, events |-> ev]], opost)
        res == _register_webhook(webhook_url, ev, opost)
    IN  IF res.exc = "ClientResponseError"
        THEN [wh |-> wh, exc |-> "", ret |-> None, reqs |-> Append(reqs, reqP)]
        ELSE IF res.exc # ""
        THEN [wh |-> wh, exc |-> res.exc, ret |-> None, reqs |-> Append(reqs, reqP)]
        ELSE [wh |-> res.val, exc |-> "", ret |-> res.val, reqs |-> Append(reqs, reqP)]

\* PointSession.update_webhook
update_webhook(wh, webhook_url, webhook_id, events, oget, opost) ==
    LET reqG == Req("GET", MINUT_WEBHOOKS_URL, <<>>, oget)
        res == request(oget)
    IN  IF res.exc # ""
        THEN [wh |-> wh, exc |-> res.exc, ret |-> None, reqs |-> <<reqG>>]
        ELSE IF res.val = None
        THEN [wh |-> wh, exc |-> "TypeError", ret |-> None, reqs |-> <<reqG>>]
        ELSE IF "hooks" \notin DOMAIN res.val
        THEN [wh |-> wh, exc |-> "KeyError", ret |-> None, reqs |-> <<reqG>>]
        ELSE LET hooks == res.val.hooks.list
                 i == NextHook(hooks, webhook_url)
             IN  IF i # 0
                 THEN [wh |-> Adopt(wh, hooks[i]), exc |-> "", ret |-> None,
                       reqs |-> <<reqG>>]
                 ELSE RegisterNew(wh, webhook_url, events, opost, <<reqG>>)

\* the condition of PointSession.remove_webhook
HoldsHook(wh) == Truthy(wh) /\ "hook_id" \in DOMAIN wh /\ wh.hook_id # ""

\* the webhook record after PointSession.remove_webhook
Removed(wh) == wh

\* PointSession.remove_webhook
remove_webhook(wh, outcome) ==
    IF HoldsHook(wh)
    THEN LET req == Req("DELETE", MINUT_WEBHOOKS_URL \o "/" \o wh.hook_id, <<>>,
                        outcome)
             res == request(outcome)
         IN  [wh |-> Removed(wh), exc |-> res.exc, ret |-> None, reqs |-> <<req>>]
    ELSE [wh |-> wh, exc |-> "", ret |-> None, reqs |-> <<>>]

\* PointSession.webhook
webhook(wh) ==
    IF wh = None THEN Raise("AttributeError")
    ELSE IF "hook_id" \in DOMAIN wh THEN Return(Text(wh.hook_id))
    ELSE Return(None)

----------------------------------------------------------------------------
(* Actions *)

Init ==
    /\ _device_state = EmptyDict
    /\ _homes = EmptyDict
    /\ _webhook = EmptyDict
    /\ srv_hooks = <<>>
    /\ srv_created = <<>>
    /\ op = "__init__"
    /\ args = EmptyDict
    /\ requests = <<>>
    /\ raised = ""
    /\ result = None
    /\ section = "none"
    /\ _lock = 0
    /\ tasks = [t \in Tasks |-> Idle]

Update ==
    \E od \in DeviceOutcomes, oh \in HomeOutcomes \cup {Unsent} :
        LET r == update(_device_state, _homes, od, oh)
        IN  /\ (oh = Unsent) <=> (Len(r.reqs) = 1)
            /\ _device_state' = r.ds
            /\ _homes' = r.hm
            /\ op' = "update"
            /\ args' = EmptyDict
            /\ requests' = r.reqs
            /\ raised' = r.exc
            /\ result' = r.ret
            /\ section' = "locked"
            /\ UNCHANGED <<_webhook, server, loop>>

ReadSensor ==
    \E device_id \in SensorDeviceIds, sensor_uri \in SensorUris,
       o \in SensorOutcomes \cup {Unsent} :
        LET r == read_sensor(_device_state, device_id, sensor_uri, o)
        IN  /\ (o = Unsent) <=> (r.reqs = <<>>)
            /\ op' = "read_sensor"
            /\ args' = [device_id |-> device_id, sensor_uri |-> sensor_uri]
            /\ requests' = r.reqs
            /\ raised' = r.exc
            /\ result' = r.ret
            /\ section' = "unlocked"
            /\ UNCHANGED <<session, server, loop>>

ReadHomes ==
    /\ op' = "homes"
    /\ args' = EmptyDict
    /\ requests' = <<>>
    /\ raised' = ""
    /\ result' = homes(_homes)
    /\ section' = "unlocked"
    /\ UNCHANGED <<session, server, loop>>

GetDevice ==
    \E device_id \in ViewDeviceIds :
        LET r == device(device_id)
        IN  /\ op' = "device"
            /\ args' = [device_id |-> device_id]
            /\ requests' = <<>>
            /\ raised' = r.exc
            /\ result' = r.val
            /\ section' = "none"
            /\ UNCHANGED <<session, server, loop>>

AlarmArm ==
    \E home_id \in HomeIds, o \in AlarmOutcomes :
        LET r == alarm_arm(home_id, o)
        IN  /\ op' = "alarm_arm"
            /\ args' = [home_id |-> home_id]
            /\ requests' = r.reqs
            /\ raised' = r.exc
            /\ result' = r.ret
            /\ section' = "none"
            /\ UNCHANGED <<session, server, loop>>

AlarmDisarm ==
    \E home_id \in HomeIds, o \in AlarmOutcomes :
        LET r == alarm_disarm(home_id, o)
        IN  /\ op' = "alarm_disarm"
            /\ args' = [home_id |-> home_id]
            /\ requests' = r.reqs
            /\ raised' = r.exc
            /\ result' = r.ret
            /\ section' = "none"
            /\ UNCHANGED <<session, server, loop>>

Next ==
    \/ Update
    \/ ReadSensor
    \/ ReadHomes
    \/ GetDevice
    \/ AlarmArm
    \/ AlarmDisarm

Spec == Init /\ [][Next]_vars

----------------------------------------------------------------------------
(* The webhook operations, against a server that may hold a hook already *)

InitWebhook ==
    /\ _device_state = EmptyDict
    /\ _homes = EmptyDict
    /\ _webhook = EmptyDict
    /\ srv_hooks \in InitialHooks
    /\ srv_created = <<>>
    /\ op = "__init__"
    /\ args = EmptyDict
    /\ requests = <<>>
    /\ raised = ""
    /\ result = None
    /\ section = "none"
    /\ _lock = 0
    /\ tasks = [t \in Tasks |-> Idle]

UpdateWebhook ==
    \E a \in WebhookArgs, kget \in ExchangeKinds,
       kpost \in ExchangeKinds \cup {"unsent"} :
        LET ev == IF a.events = None THEN List(EventNames(EVENTS)) ELSE a.events
            hook == NewHook(srv_created, a.webhook_url, ev)
            oget == Exchange(kget, [hooks |-> List(srv_hooks)])
            opost == Exchange(kpost, hook)
            r == update_webhook(_webhook, a.webhook_url, a.webhook_id, a.events,
                                oget, opost)
        IN  /\ (kpost = "unsent") <=> (Len(r.reqs) = 1)
            /\ kpost = "ok" => Len(srv_created) < MaxHooks
            /\ _webhook' = r.wh
            /\ srv_hooks' = IF kpost = "ok" THEN Append(srv_hooks, hook) ELSE srv_hooks
            /\ srv_created' =
                   IF kpost = "ok" THEN Append(srv_created, hook) ELSE srv_created
            /\ op' = "update_webhook"
            /\ args' = a
            /\ requests' = r.reqs
            /\ raised' = r.exc
            /\ result' = r.ret
            /\ section' = "none"
            /\ UNCHANGED <<_device_state, _homes, loop>>

RemoveWebhook ==
    \E k \in ExchangeKinds \cup {"unsent"} :
        LET o == Exchange(k, EmptyDict)
            r == remove_webhook(_webhook, o)
        IN  /\ (k = "unsent") <=> (r.reqs = <<>>)
            /\ k = "ok" => HasHook(srv_hooks, _webhook.hook_id)
            /\ _webhook' = r.wh
            /\ srv_hooks' =
                   IF k = "ok" THEN WithoutHook(srv_hooks, _webhook.hook_id)
                   ELSE srv_hooks
            /\ op' = "remove_webhook"
            /\ args' = EmptyDict
            /\ requests' = r.reqs
            /\ raised' = r.exc
            /\ result' = r.ret
            /\ section' = "none"
            /\ UNCHANGED <<_device_state, _homes, srv_created, loop>>

ReadWebhook ==
    LET r == webhook(_webhook)
    IN  /\ op' = "webhook"
        /\ args' = EmptyDict
        /\ requests' = <<>>
        /\ raised' = r.exc
        /\ result' = r.val
        /\ section' = "none"
        /\ UNCHANGED <<session, server, loop>>

NextWebhook ==
    \/ UpdateWebhook
    \/ RemoveWebhook
    \/ ReadWebhook

SpecWebhook == InitWebhook /\ [][NextWebhook]_vars

----------------------------------------------------------------------------
(* The readers of the device cache and the Device views *)

\* the properties of a Device view
Properties ==
    {"device", "ongoing_events", "device_id", "last_update", "name",
     "battery_level", "device_info", "device_status", "webhook"}

\* the properties that read no device record
Unbound == {"device_id", "webhook"}

\* the property p of the view, read with the session as it is
Property(p, state, wh, view) ==
    CASE p = "device" -> Return(Device_device(state, view))
      [] p = "ongoing_events" -> Device_ongoing_events(state, view)
      [] p = "device_id" -> Device_device_id(state, view)
      [] p = "last_update" -> Device_last_update(state, view)
      [] p = "name" -> Device_name(state, view)
      [] p = "battery_level" -> Device_battery_level(state, view)
      [] p = "device_info" -> Device_device_info(state, view)
      [] p = "device_status" -> Device_device_status(state, view)
      [] p = "webhook" -> webhook(wh)

ReadDeviceIds ==
    /\ op' = "device_ids"
    /\ args' = EmptyDict
    /\ requests' = <<>>
    /\ raised' = ""
    /\ result' = device_ids(_device_state)
    /\ section' = "locked"
    /\ UNCHANGED <<session, server, loop>>

ReadDeviceRaw ==
    \E device_id \in ViewIds :
        /\ op' = "device_raw"
        /\ args' = [device_id |-> device_id]
        /\ requests' = <<>>
        /\ raised' = ""
        /\ result' = device_raw(_device_state, device_id)
        /\ section' = "locked"
        /\ UNCHANGED <<session, server, loop>>

\* the key view is obtained under the lock; the generator walks it after the
\* lock is released
ReadDevices ==
    LET r == devices(_device_state)
    IN  /\ op' = "devices"
        /\ args' = EmptyDict
        /\ requests' = <<>>
        /\ raised' = r.exc
        /\ result' = r.val
        /\ section' = "unlocked"
        /\ UNCHANGED <<session, server, loop>>

ReadProperty ==
    \E device_id \in ViewIds, p \in Properties :
        LET r == Property(p, _device_state, _webhook, Device(device_id))
        IN  /\ op' = "Device." \o p
            /\ args' = [device_id |-> device_id]
            /\ requests' = <<>>
            /\ raised' = r.exc
            /\ result' = r.val
            /\ section' = IF p \in Unbound THEN "none" ELSE "locked"
            /\ UNCHANGED <<session, server, loop>>

NextViews ==
    \/ Update
    \/ ReadSensor
    \/ ReadHomes
    \/ ReadDeviceIds
    \/ ReadDeviceRaw
    \/ ReadDevices
    \/ ReadProperty

SpecViews == Init /\ [][NextViews]_vars

----------------------------------------------------------------------------
(* update() calls that interleave on one event loop.  The lock is an RLock *)
(* and every call runs on the thread of the loop: acquiring it never       *)
(* blocks, it raises the level the thread holds it at.                     *)

\* update() is called: the lock is acquired, the devices request is sent
UpdateEnter(t) ==
    /\ tasks[t].pc = "idle"
    /\ _lock' = _lock + 1
    /\ tasks' = [tasks EXCEPT ![t] = [pc |-> "devices", devices |-> None]]
    /\ op' = "update"
    /\ args' = [task |-> t]
    /\ requests' = <<>>
    /\ raised' = ""
    /\ result' = None
    /\ section' = "locked"
    /\ UNCHANGED <<session, server>>

\* the devices request has ended: the cache is replaced and the homes request
\* sent, or the call ends
UpdateGotDevices(t) ==
    /\ tasks[t].pc = "devices"
    /\ \E od \in TaskDeviceOutcomes :
        LET r == UpdateDevices(_device_state, od)
        IN  /\ _device_state' = r.ds
            /\ tasks' = [tasks EXCEPT
                            ![t] = IF r.goes_on
                                   THEN [pc |-> "homes", devices |-> r.ret]
                                   ELSE Idle]
            /\ _lock' = IF r.goes_on THEN _lock ELSE _lock - 1
            /\ op' = "update"
            /\ args' = [task |-> t]
            /\ requests' = r.reqs
            /\ raised' = r.exc
            /\ result' = IF r.goes_on THEN None ELSE r.ret
            /\ section' = "locked"
            /\ UNCHANGED <<_homes, _webhook, server>>

\* the homes request has ended: the call ends
UpdateGotHomes(t) ==
    /\ tasks[t].pc = "homes"
    /\ \E oh \in TaskHomeOutcomes :
        LET r == UpdateHomes(_device_state, _homes, oh, tasks[t].devices, <<>>)
        IN  /\ _device_state' = r.ds
            /\ _homes' = r.hm
            /\ tasks' = [tasks EXCEPT ![t] = Idle]
            /\ _lock' = _lock - 1
            /\ op' = "update"
            /\ args' = [task |-> t]
            /\ requests' = r.reqs
            /\ raised' = r.exc
            /\ result' = r.ret
            /\ section' = "locked"
            /\ UNCHANGED <<_webhook, server>>

NextTasks ==
    \/ \E t \in Tasks : UpdateEnter(t)
    \/ \E t \in Tasks : UpdateGotDevices(t)
    \/ \E t \in Tasks : UpdateGotHomes(t)
    \/ ReadDeviceIds
    \/ ReadDeviceRaw
    \/ ReadHomes

SpecTasks == Init /\ [][NextTasks]_vars

----------------------------------------------------------------------------
(* Properties of update() *)

\* the devices fetch succeeded: the exchange ended with a body that lists devices
DevicesFetched(o) == o.kind = "ok" /\ "devices" \in DOMAIN o.body

\* the list a successful devices fetch returned
Fetched(o) == o.body.devices.list

\* m is the mapping device_id -> record of the devices of the list
IsMappingOf(m, list) ==
    /\ DOMAIN m = {list[i].device_id : i \in 1..Len(list)}
    /\ \A i \in 1..Len(list) : m[list[i].device_id] = list[i]

\* the exchange ended in a remote failure: connection error, timeout, non-2xx
\* status, or a body with an `error` field
RemoteFailure(o) ==
    \/ o.kind \in {"ClientConnectionError", "TimeoutError", "ClientResponseError"}
    \/ o.kind = "ok" /\ "error" \in DOMAIN o.body

HomesRequested(reqs) == \E i \in 1..Len(reqs) : reqs[i].url = MINUT_HOMES_URL

\* C1 as stated: after each update() the device cache is the cache before the
\* call when the devices fetch failed, and exactly the mapping device_id ->
\* record of the returned list when it succeeded (the empty list included).
C1_AsStated ==
    [][op' = "update" =>
        IF DevicesFetched(requests'[1].outcome)
        THEN IsMappingOf(_device_state', Fetched(requests'[1].outcome))
        ELSE _device_state' = _device_state]_vars

\* C1, amended: after each update() the device cache is exactly the mapping
\* device_id -> record of the returned list when the devices fetch succeeded
\* with a non-empty list, and the cache before the call otherwise (the fetch
\* failed, or it returned an empty list); never a mixture.
C1_CacheReplacedWholesale ==
    [][op' = "update" =>
        IF /\ DevicesFetched(requests'[1].outcome)
           /\ Len(Fetched(requests'[1].outcome)) > 0
        THEN IsMappingOf(_device_state', Fetched(requests'[1].outcome))
        ELSE _device_state' = _device_state]_vars

\* an update() replaced the cache by the two devices of a successful fetch
C1_Witness ==
    /\ op = "update"
    /\ DevicesFetched(requests[1].outcome)
    /\ Len(Fetched(requests[1].outcome)) = 2
    /\ IsMappingOf(_device_state, Fetched(requests[1].outcome))

\* C2 as stated: update() does not raise when its devices fetch or its homes
\* fetch ends in a remote failure (connection error, timeout, non-2xx status,
\* body with an `error` field).
C2_UpdateNeverRaises ==
    (op = "update" /\ \E i \in 1..Len(requests) : RemoteFailure(requests[i].outcome))
        => raised = ""

\* C3: update() sends the homes request only after a devices fetch that
\* returned a non-empty list and with the device cache already replaced by
\* that list; when the devices fetch fails or returns nothing, no homes
\* request is sent and both caches stay as they were.
C3_HomesOnlyAfterDevices ==
    [][op' = "update" =>
        LET o == requests'[1].outcome
            found == DevicesFetched(o) /\ Len(Fetched(o)) > 0
        IN  /\ requests'[1].url = MINUT_DEVICES_URL
            /\ HomesRequested(requests') =>
                   /\ found
                   /\ Len(requests') = 2
                   /\ requests'[2].url = MINUT_HOMES_URL
                   /\ IsMappingOf(_device_state', Fetched(o))
            /\ ~found =>
                   /\ ~HomesRequested(requests')
                   /\ _device_state' = _device_state
                   /\ _homes' = _homes]_vars

\* a homes request was sent and failed: the device cache is already the new list
C3_Witness ==
    /\ op = "update"
    /\ Len(requests) = 2
    /\ requests[2].url = MINUT_HOMES_URL
    /\ requests[2].outcome.kind = "ClientResponseError"
    /\ raised = "ClientResponseError"
    /\ IsMappingOf(_device_state, Fetched(requests[1].outcome))

----------------------------------------------------------------------------
(* Properties of the alarm, the sensors, the views *)

\* the PUT was answered with a body whose alarm_status is `status`
Echoed(o, status) ==
    o.kind = "ok" /\ "alarm_status" \in DOMAIN o.body /\ o.body.alarm_status = status

\* C7 as stated: alarm_arm returns true exactly when the PUT response's
\* alarm_status is "on", alarm_disarm exactly when it is "off"; for every other
\* outcome of the PUT (also a failed request) the call returns false and does
\* not raise.
C7_AlarmNeverRaises ==
    op \in {"alarm_arm", "alarm_disarm"} =>
        /\ raised = ""
        /\ result = Bool(Echoed(requests[1].outcome,
                                IF op = "alarm_arm" THEN "on" ELSE "off"))

\* the alias table: sound_pressure is read as sound
Normalized(sensor_uri) == IF sensor_uri = "sound_pressure" THEN "sound" ELSE sensor_uri

\* the cached record of the device has a latest_sensor_values entry for the sensor
HasCachedValue(state, device_id, sensor) ==
    /\ device_id \in DOMAIN state
    /\ "latest_sensor_values" \in DOMAIN state[device_id]
    /\ sensor \in DOMAIN state[device_id].latest_sensor_values

\* C8: when the cached record of the device has a latest_sensor_values entry
\* for the normalized sensor, read_sensor returns that entry's value and sends
\* no request; the same call repeated with no update() in between returns the
\* same value, again without a request.
C8_ReadSensorCacheFirst ==
    [][op' = "read_sensor" =>
        LET id == args'.device_id
            sensor == Normalized(args'.sensor_uri)
        IN  HasCachedValue(_device_state', id, sensor) =>
                /\ requests' = <<>>
                /\ raised' = ""
                /\ result' = Num(_device_state'[id].latest_sensor_values[sensor].value)
                /\ (op = "read_sensor" /\ args = args') => result' = result]_vars

\* sound_pressure of device a was read from the cached sound entry
C8_Witness ==
    /\ op = "read_sensor"
    /\ args = [device_id |-> "a", sensor_uri |-> "sound_pressure"]
    /\ HasCachedValue(_device_state, "a", "sound")
    /\ _device_state["a"].latest_sensor_values.sound.value = 42
    /\ result = Num(42)
    /\ requests = <<>>

\* C9: device(id) fails with a usage error for every identifier of length 1,
\* cached or not; for every other length it returns a Device view of that id;
\* it sends no request and leaves the session as it was.
C9_DeviceRejectsLengthOne ==
    [][op' = "device" =>
        /\ requests' = <<>>
        /\ UNCHANGED session
        /\ IF Len(args'.device_id) = 1
           THEN raised' = "Exception" /\ result' = None
           ELSE raised' = "" /\ result' = [_device_id |-> args'.device_id]]_vars

\* device("a") failed although a is a cached device
C9_Witness ==
    /\ op = "device"
    /\ args.device_id = "a"
    /\ "a" \in DOMAIN _device_state
    /\ raised = "Exception"

\* the entries of the home cache
CachedHomes == IF _homes = EmptyDict THEN {} ELSE {_homes.list[i] : i \in 1..Len(_homes.list)}

\* the homes view holds exactly the cached homes that have an alarm_status, by home_id
HomesViewExact ==
    LET view == homes(_homes)
        alarmed == {e \in CachedHomes : "alarm_status" \in DOMAIN e}
    IN  /\ DOMAIN view = {e.home_id : e \in alarmed}
        /\ \A e \in alarmed : view[e.home_id] = e
        /\ \A id \in DOMAIN view : "alarm_status" \in DOMAIN view[id]
        /\ op = "homes" => (result = view /\ requests = <<>> /\ raised = "")

\* C10: in every reachable state the homes view holds exactly the entries of
\* the home cache that have an alarm_status key, keyed by home_id, and none
\* that lacks it; reading it sends no request and changes no state.
C10_HomesFiltered ==
    /\ []HomesViewExact
    /\ [][op' = "homes" => (requests' = <<>> /\ UNCHANGED <<session, server>>)]_vars

\* homes was read with a cached home that has no alarm_status: the view leaves it out
C10_Witness ==
    /\ op = "homes"
    /\ _homes = List(<<H1on, H2>>)
    /\ DOMAIN result = {"h1"}
    /\ result["h1"] = H1on

----------------------------------------------------------------------------
(* Properties of the webhook *)

Posts(reqs) == {i \in 1..Len(reqs) : reqs[i].method = "POST"}
Deletes(reqs) == {i \in 1..Len(reqs) : reqs[i].method = "DELETE"}

\* the places of the hooks for a url
HooksFor(hooks, url) == {i \in 1..Len(hooks) : hooks[i].url = url}

\* every request of the call was served by the server
AllServed(reqs) ==
    \A i \in 1..Len(reqs) :
        reqs[i].outcome.kind = "ok" /\ "error" \notin DOMAIN reqs[i].outcome.body

\* the hook list the call's GET returned
Listed(reqs) == reqs[1].outcome.body.hooks.list

\* C4: update_webhook(url, hint) called twice with the same url, all requests
\* served, against a server that has no hook for the url and lists every hook
\* it accepted: the first call sends exactly one POST and returns the
\* registration; the second finds the hook by url, sends no POST and returns
\* nothing; one hook for the url is created in all.
C4_RegisterOnce ==
    [][(op' = "update_webhook" /\ AllServed(requests')) =>
        LET url == args'.webhook_url
        IN  /\ HooksFor(srv_hooks, url) = {} =>
                /\ Cardinality(Posts(requests')) = 1
                /\ raised' = ""
                /\ result' # None
                /\ result'.url = url
                /\ Cardinality(HooksFor(srv_hooks', url)) = 1
                /\ Cardinality(HooksFor(srv_created', url)) =
                       Cardinality(HooksFor(srv_created, url)) + 1
            /\ ( /\ op = "update_webhook"
                 /\ args.webhook_url = url
                 /\ AllServed(requests)
                 /\ Posts(requests) # {} ) =>
                /\ Posts(requests') = {}
                /\ raised' = ""
                /\ result' = None
                /\ srv_created' = srv_created
                /\ Cardinality(HooksFor(srv_hooks', url)) = 1]_vars

\* the second of two calls: the hook the server created for the url is found
\* in the list and adopted, and no hook was created but this one
C4_Witness ==
    /\ op = "update_webhook"
    /\ AllServed(requests)
    /\ Posts(requests) = {}
    /\ result = None
    /\ Len(srv_created) = 1
    /\ srv_created[1].url = args.webhook_url
    /\ srv_hooks = srv_created
    /\ _webhook = srv_created[1]

\* C5: whenever the hook list of the server holds a hook with the requested
\* url, update_webhook adopts that record without a POST and returns nothing,
\* and the webhook accessor then returns that record's hook_id, whatever the
\* session held before and whatever the id hint and the events are.
C5_AdoptExisting ==
    [][( /\ op' = "update_webhook"
         /\ AllServed(<<requests'[1]>>)
         /\ HooksFor(Listed(requests'), args'.webhook_url) # {} ) =>
        LET hooks == Listed(requests')
            hook == hooks[Min(HooksFor(hooks, args'.webhook_url))]
        IN  /\ hooks = srv_hooks
            /\ Len(requests') = 1
            /\ requests'[1].method = "GET"
            /\ raised' = ""
            /\ result' = None
            /\ _webhook' = hook
            /\ webhook(_webhook') = Return(Text(hook.hook_id))
            /\ UNCHANGED server]_vars

\* the hook h1 of the server was adopted for https://x, with the hint "ignored"
C5_Witness ==
    /\ op = "update_webhook"
    /\ args.webhook_url = "https://x"
    /\ args.webhook_id = "ignored"
    /\ Len(requests) = 1
    /\ AllServed(requests)
    /\ Listed(requests) = <<H1>>
    /\ _webhook = H1
    /\ webhook(_webhook) = Return(Text("h1"))

\* C6 as stated: remove_webhook() with a registration held sends one DELETE
\* for its hook_id and clears the local registration: afterwards the webhook
\* accessor returns nothing and a further remove_webhook() sends no request;
\* with nothing registered it sends no request.
C6_RemoveClears ==
    [][op' = "remove_webhook" =>
        IF HoldsHook(_webhook)
        THEN /\ Cardinality(Deletes(requests')) = 1
             /\ Len(requests') = 1
             /\ requests'[1].url = MINUT_WEBHOOKS_URL \o "/" \o _webhook.hook_id
             /\ raised' = "" => webhook(_webhook') = Return(None)
        ELSE requests' = <<>>]_vars

\* the exchange failed at the transport layer: connection error, timeout or
\* non-2xx status
TransportFailure(o) ==
    o.kind \in {"ClientConnectionError", "TimeoutError", "ClientResponseError"}

\* C11 as stated: when update_webhook finds no hook with the requested url and
\* the registering POST fails at the transport layer (connection error,
\* timeout or non-2xx status), update_webhook returns nothing and does not raise.
C11_RegisterFailureReturnsNothing ==
    ( /\ op = "update_webhook"
      /\ Posts(requests) # {}
      /\ TransportFailure(requests[Len(requests)].outcome) ) =>
        (raised = "" /\ result = None)

\* C19 as stated: when the GET of the hook list fails at the transport layer,
\* update_webhook returns a "nothing happened" value without raising, sends no
\* POST and leaves the webhook registration held by the session unchanged.
C19_ListFailureRecovered ==
    [][(op' = "update_webhook" /\ TransportFailure(requests'[1].outcome)) =>
        /\ raised' = ""
        /\ result' = None
        /\ Posts(requests') = {}
        /\ _webhook' = _webhook]_vars

\* C20 as stated: in every state reached by update_webhook and remove_webhook
\* calls (failed list, register and delete requests included) the webhook
\* record is a mapping, never a null value, and the webhook accessor returns
\* a hook_id or nothing and never faults.
C20_WebhookIsMapping ==
    /\ _webhook # None
    /\ webhook(_webhook).exc = ""
    /\ op = "webhook" => raised = ""

----------------------------------------------------------------------------
(* Properties of read_sensor on a cache miss *)

\* the entries of the `values` sequence of a served sensor request (none when
\* the request failed or the body has no such sequence)
Entries(o) ==
    IF o.kind = "ok" /\ "values" \in DOMAIN o.body THEN o.body.values.list ELSE <<>>

\* C17 as stated: when the cache has no latest_sensor_values entry for the
\* normalized sensor of the device (or the device is not cached), read_sensor
\* issues exactly one per-sensor GET with limit=1 and returns the value of the
\* last entry of the response's `values`; it returns nothing when the request
\* failed or the response has no entries; the device cache is unchanged.
C17_ReadSensorMiss ==
    [][op' = "read_sensor" =>
        LET id == args'.device_id
            sensor == Normalized(args'.sensor_uri)
        IN  ~HasCachedValue(_device_state, id, sensor) =>
                /\ Len(requests') = 1
                /\ requests'[1].method = "GET"
                /\ requests'[1].url = MINUT_DEVICES_URL \o "/" \o id \o "/" \o sensor
                /\ requests'[1].kwargs = [data |-> [limit |-> 1]]
                /\ _device_state' = _device_state
                /\ raised' = ""
                /\ LET entries == Entries(requests'[1].outcome)
                   IN  result' = IF entries = <<>> THEN None
                                 ELSE IF "value" \in DOMAIN entries[Len(entries)]
                                 THEN Num(entries[Len(entries)].value)
                                 ELSE None]_vars

----------------------------------------------------------------------------
(* Properties of the Device views *)

\* the name of the call that reads property p of a view
ViewOp(p) == "Device." \o p

Has(rec, k) == k \in DOMAIN rec

\* C12: a Device view stores no device data: whatever update() calls came
\* before, battery_level, name, last_update, ongoing_events and device_status
\* of a view whose device is cached return the value of the record the cache
\* holds for its device_id now (the one the latest replacing update()
\* delivered), without a request and without changing the session.
C12_ViewReadsCurrentCache ==
    [][( /\ \E p \in {"battery_level", "name", "last_update", "ongoing_events",
                      "device_status"} : op' = ViewOp(p)
         /\ args'.device_id \in DOMAIN _device_state' ) =>
        LET rec == _device_state'[args'.device_id]
        IN  /\ requests' = <<>>
            /\ UNCHANGED session
            /\ (op' = ViewOp("battery_level") /\ Has(rec, "battery")) =>
                   (raised' = "" /\ result' = Num(rec.battery.percent))
            /\ op' = ViewOp("name") =>
                   /\ raised' = ""
                   /\ result' = IF Has(rec, "description")
                                THEN Text(rec.description) ELSE None
            /\ (op' = ViewOp("last_update") /\ Has(rec, "last_heard_from_at")) =>
                   (raised' = "" /\ result' = Text(rec.last_heard_from_at))
            /\ (op' = ViewOp("ongoing_events") /\ Has(rec, "ongoing_events")) =>
                   (raised' = "" /\ result' = List(rec.ongoing_events))
            /\ ( /\ op' = ViewOp("device_status")
                 /\ \A k \in {"active", "offline", "last_heard_from_at", "battery"} :
                        Has(rec, k) ) =>
                   /\ raised' = ""
                   /\ result' = [active |-> Bool(rec.active),
                                 offline |-> Bool(rec.offline),
                                 last_update |-> Text(rec.last_heard_from_at),
                                 battery_level |-> Num(rec.battery.percent)]]_vars

\* the status of device a is read from the record a later fetch delivered for
\* it (battery 60, offline), not from the record of the first fetch (55, online)
C12_Witness ==
    /\ op = ViewOp("device_status")
    /\ args.device_id = "a"
    /\ "a" \in DOMAIN _device_state
    /\ _device_state["a"] = A2
    /\ raised = ""
    /\ result.battery_level = Num(60)
    /\ result.offline = Bool(TRUE)

\* a property of a view was read whose device is not cached
AbsentRead(o, a, state) ==
    /\ \E p \in Properties : o = ViewOp(p)
    /\ a.device_id \notin DOMAIN state

\* C13 as stated: when the device_id of a view is not a key of the device
\* cache, accessing any property of the view fails with an error.
C13_AsStated ==
    [][AbsentRead(op', args', _device_state') => raised' # ""]_vars

\* C13, amended: when the device_id of a view is not a key of the device
\* cache, each property that reads the device record fails: name with an
\* AttributeError, battery_level, last_update, ongoing_events, device_info and
\* device_status with a TypeError.  device_id, webhook and device read no
\* record and return: the id, the session's hook id, nothing.
C13_AbsentDeviceFails ==
    [][AbsentRead(op', args', _device_state') =>
        /\ requests' = <<>>
        /\ UNCHANGED session
        /\ op' = ViewOp("name") => (raised' = "AttributeError" /\ result' = None)
        /\ (\E p \in {"battery_level", "last_update", "ongoing_events",
                      "device_info", "device_status"} : op' = ViewOp(p)) =>
               (raised' = "TypeError" /\ result' = None)
        /\ op' = ViewOp("device_id") =>
               (raised' = "" /\ result' = Text(args'.device_id))
        /\ op' = ViewOp("webhook") => (raised' = "" /\ result' = None)
        /\ op' = ViewOp("device") => (raised' = "" /\ result' = None)]_vars

\* the battery level of device a was read after an update() that dropped a
\* from the cache
C13_Witness ==
    /\ op = ViewOp("battery_level")
    /\ args.device_id = "a"
    /\ DOMAIN _device_state = {"d2"}
    /\ raised = "TypeError"

\* C18 as stated: whatever the device cache holds, each access of `devices`
\* yields one Device view per cached id (the ids of device_ids, none missing,
\* none extra) and traversing it does not fail; two traversals with no
\* update() in between yield the same ids.
C18_DevicesComplete ==
    [][op' = "devices" =>
        /\ raised' = ""
        /\ result' = [views |-> {Device(id) : id \in device_ids(_device_state').keys}]
        /\ op = "devices" => result' = result]_vars

----------------------------------------------------------------------------
(* Properties of the lock and of interleaved update() calls *)

\* C15 as stated: every read and every write of the device cache and the home
\* cache, in each of update, device_ids, device_raw, devices, homes and
\* read_sensor, happens while the operation holds the session lock.
C15_EveryAccessLocked ==
    op \in {"update", "device_ids", "device_raw", "devices", "homes", "read_sensor"}
        => section = "locked"

\* the device cache is the initial one or the complete list of one fetch
CompleteFetch ==
    \/ _device_state = EmptyDict
    \/ \E o \in TaskDeviceOutcomes :
           /\ DevicesFetched(o)
           /\ Len(Fetched(o)) > 0
           /\ IsMappingOf(_device_state, Fetched(o))

\* the step is the replacement of the device cache by an update() call
Replaces(reqs) ==
    /\ reqs # <<>>
    /\ reqs[1].url = MINUT_DEVICES_URL
    /\ DevicesFetched(reqs[1].outcome)
    /\ Len(Fetched(reqs[1].outcome)) > 0

\* C14: with two update() calls interleaved at their network calls, the
\* device cache is in every state the initial cache or the complete list of
\* one fetch; it changes only in the step in which a call replaces it, and
\* then to that call's whole list, so that it always is the list of the call
\* that replaced last; device_ids and device_raw return what that cache holds.
C14_NoPartialCache ==
    /\ []CompleteFetch
    /\ [][IF op' = "update" /\ Replaces(requests')
          THEN IsMappingOf(_device_state', Fetched(requests'[1].outcome))
          ELSE _device_state' = _device_state]_vars
    /\ [][(op' = "device_ids" => result' = Keys(DOMAIN _device_state'))
          /\ (op' = "device_raw" =>
                 /\ CompleteFetch'
                 /\ result' = IF args'.device_id \in DOMAIN _device_state'
                              THEN _device_state'[args'.device_id] ELSE None)]_vars

\* both calls are suspended at their homes request: u1 replaced the cache by
\* its list first, u2 by its list after it, and the reader sees the list of u2
C14_Witness ==
    /\ tasks["u1"] = [pc |-> "homes", devices |-> List(<<A1>>)]
    /\ tasks["u2"] = [pc |-> "homes", devices |-> List(<<A2, D1>>)]
    /\ op = "device_ids"
    /\ result = Keys({"a", "d1"})
    /\ IsMappingOf(_device_state, <<A2, D1>>)

\* C16 as stated: while one update() is suspended at a network call inside
\* its lock-guarded section, no second update() and no device_ids or
\* device_raw read enters its own lock-guarded section (so no reader sees the
\* new device cache with the home cache of an earlier update()).
C16_LockExcludes ==
    [][_lock > 0 =>
        /\ _lock' <= _lock
        /\ op' \notin {"device_ids", "device_raw"}]_vars

====
